---- MODULE Spec2Model ----
(***************************************************************************)
(* HTTP Strict Transport Security RoundTripper (package hsts).             *)
(*                                                                         *)
(* Strings are sequences of one-character strings, so that Split, Trim,    *)
(* ToLower, Unquote and Atoi are computed character by character.  A host  *)
(* is a sequence of tokens: labels, "." separators, and, for an explicit   *)
(* port, ":" followed by the port's characters.  Go indexes strings from   *)
(* 0 and reports "not found" as -1; here positions start at 1 and "not     *)
(* found" is 0.                                                            *)
(***************************************************************************)
EXTENDS Integers, Sequences, FiniteSets, TLC

VARIABLES
    now,        \* time.Now(), in seconds
    hosts,      \* the hosts the client of this run sends requests to
    heap,       \* the map objects allocated by make(map[string]*directive)
    transports, \* the *Transport values built by New: [state |-> index in heap]
    pc,         \* where the RoundTrip call in progress is: idle, wrap, done
    cur,        \* the Transport the call in progress was made on
    req,        \* the *http.Request given to RoundTrip
    sent,       \* the requests handed to the wrapped RoundTripper during the call
    wrapped,    \* what the wrapped RoundTripper returned to the call: [resp, err]
    out,        \* what RoundTrip returned: [resp, err]
    header,     \* input of a stand-alone parse call
    parsed,     \* result of a stand-alone parse call
    mutex,      \* the sync.Mutex m of the Transport: 0, or the goroutine that locked it
    calls       \* the RoundTrip call of each goroutine that calls concurrently

vars ==
    <<now, hosts, heap, transports, pc, cur, req, sent, wrapped, out, header, parsed,
      mutex, calls>>

(***************************************************************************)
(* Bounds.                                                                 *)
(***************************************************************************)
\* The clock runs from 1 to MaxTime.
MaxTime == 3
\* A header handed to a stand-alone parse call has at most MaxFields fields.
MaxFields == 2
\* New is called at most MaxTransports times.
MaxTransports == 2
\* MaxCallers goroutines call RoundTrip concurrently.
MaxCallers == 2

(***************************************************************************)
(* Pointers: nil, or a pointer to a value.                                 *)
(***************************************************************************)
Nil == [nil |-> TRUE]
Ptr(v) == [nil |-> FALSE, v |-> v]

(***************************************************************************)
(* package strings / strconv                                               *)
(***************************************************************************)
Space == {" ", "\t"}
DQ == "\""
Digits == <<"0", "1", "2", "3", "4", "5", "6", "7", "8", "9">>
UpperCase ==
    <<"A", "B", "C", "D", "E", "F", "G", "H", "I", "J", "K", "L", "M",
      "N", "O", "P", "Q", "R", "S", "T", "U", "V", "W", "X", "Y", "Z">>
LowerCase ==
    <<"a", "b", "c", "d", "e", "f", "g", "h", "i", "j", "k", "l", "m",
      "n", "o", "p", "q", "r", "s", "t", "u", "v", "w", "x", "y", "z">>

\* strings.Index(s, c) for a one-character c: first position of c, 0 if none.
Index(s, c) ==
    IF \E i \in 1..Len(s) : s[i] = c
    THEN CHOOSE i \in 1..Len(s) : s[i] = c /\ \A j \in 1..(i - 1) : s[j] # c
    ELSE 0

\* strings.Contains(s, c)
Contains(s, c) == Index(s, c) # 0

\* s[i:] for the 1-based position i of the first character kept.
From(s, i) == SubSeq(s, i, Len(s))

\* strings.Split(s, sep): every sep separates two fields; Split("") is [""].
RECURSIVE Split(_, _)
Split(s, sep) ==
    LET i == Index(s, sep)
    IN  IF i = 0 THEN <<s>>
        ELSE <<SubSeq(s, 1, i - 1)>> \o Split(From(s, i + 1), sep)

\* strings.SplitN(s, sep, 2) for an s that contains sep: cut at the first sep.
SplitN2(s, sep) ==
    LET i == Index(s, sep)
    IN  <<SubSeq(s, 1, i - 1), From(s, i + 1)>>

\* strings.TrimSpace(s)
TrimSpace(s) ==
    LET keep == {i \in 1..Len(s) : s[i] \notin Space}
    IN  IF keep = {} THEN <<>>
        ELSE SubSeq(s, CHOOSE i \in keep : \A j \in keep : i <= j,
                       CHOOSE i \in keep : \A j \in keep : j <= i)

\* strings.ToLower(s)
LowerChar(c) ==
    IF \E i \in 1..26 : UpperCase[i] = c
    THEN LowerCase[CHOOSE i \in 1..26 : UpperCase[i] = c]
    ELSE c
ToLower(s) == [i \in 1..Len(s) |-> LowerChar(s[i])]

\* strings.HasPrefix(s, c) and strings.HasSuffix(s, c) for a one-character c.
HasPrefix(s, c) == Len(s) >= 1 /\ s[1] = c
HasSuffix(s, c) == Len(s) >= 1 /\ s[Len(s)] = c

\* strconv.Unquote(s) for an s that starts with a double quote and holds no
\* backslash or newline: s must be at least two characters and the first
\* double quote after the opening one must be the last character.
Unquote(s) ==
    IF Len(s) >= 2 /\ s[Len(s)] = DQ /\ \A i \in 2..(Len(s) - 1) : s[i] # DQ
    THEN [ok |-> TRUE, v |-> SubSeq(s, 2, Len(s) - 1)]
    ELSE [ok |-> FALSE, v |-> <<>>]

IsDigit(c) == \E i \in 1..10 : Digits[i] = c
DigitVal(c) == (CHOOSE i \in 1..10 : Digits[i] = c) - 1

RECURSIVE DigitsVal(_)
DigitsVal(s) ==
    IF s = <<>> THEN 0
    ELSE 10 * DigitsVal(SubSeq(s, 1, Len(s) - 1)) + DigitVal(s[Len(s)])

\* fmt.Sprintf("%d", n) for a small integer of the model.
RECURSIVE NatString(_)
NatString(n) ==
    IF n < 10 THEN <<Digits[n + 1]>>
    ELSE NatString(n \div 10) \o <<Digits[(n % 10) + 1]>>
IntString(n) == IF n < 0 THEN <<"-">> \o NatString(0 - n) ELSE NatString(n)

(***************************************************************************)
(* Integers.  An int of the program is its sign and the decimal digits of  *)
(* its magnitude, without leading zeros, so that values up to 2^63 are     *)
(* exact.                                                                  *)
(***************************************************************************)
Int64(neg, digits) == [neg |-> neg, digits |-> digits]
Zero == Int64(FALSE, <<"0">>)

\* The digits without their leading zeros.
StripZeros(ds) ==
    IF \A i \in 1..Len(ds) : ds[i] = "0" THEN <<"0">>
    ELSE From(ds, CHOOSE i \in 1..Len(ds) :
                     ds[i] # "0" /\ \A j \in 1..(i - 1) : ds[j] = "0")

\* a < b for two magnitudes.
Less(a, b) ==
    \/ Len(a) < Len(b)
    \/ /\ Len(a) = Len(b)
       /\ \E i \in 1..Len(a) :
             /\ DigitVal(a[i]) < DigitVal(b[i])
             /\ \A j \in 1..(i - 1) : a[j] = b[j]

\* 2^63.
TwoTo63 ==
    <<"9", "2", "2", "3", "3", "7", "2", "0", "3", "6",
      "8", "5", "4", "7", "7", "5", "8", "0", "8">>

\* The int of a small integer of the model, and back.
ToInt64(n) == IF n < 0 THEN Int64(TRUE, NatString(0 - n)) ELSE Int64(FALSE, NatString(n))
FromInt64(n) == IF n.neg THEN 0 - DigitsVal(n.digits) ELSE DigitsVal(n.digits)

\* strconv.Atoi(s): an optional sign followed by one or more decimal digits,
\* of a value from -2^63 to 2^63 - 1; an error otherwise.
Atoi(s) ==
    LET signed == Len(s) >= 1 /\ s[1] \in {"+", "-"}
        neg    == signed /\ s[1] = "-"
        ds     == IF signed THEN Tail(s) ELSE s
        mag    == StripZeros(ds)
    IN  IF ds # <<>> /\ (\A i \in 1..Len(ds) : IsDigit(ds[i]))
           /\ (Less(mag, TwoTo63) \/ (neg /\ mag = TwoTo63))
        THEN [ok |-> TRUE, n |-> Int64(neg /\ mag # <<"0">>, mag)]
        ELSE [ok |-> FALSE, n |-> Zero]

\* fmt.Sprintf("%d", n) for an int n.
Itoa(n) == IF n.neg THEN <<"-">> \o n.digits ELSE n.digits

(***************************************************************************)
(* directives.go                                                           *)
(***************************************************************************)
MaxAgeName == <<"m", "a", "x", "-", "a", "g", "e">>
IncludeSubDomainsName ==
    <<"i", "n", "c", "l", "u", "d", "e", "s", "u", "b", "d", "o", "m", "a", "i", "n", "s">>

\* The zero time.Time: the received field of a directive built without one.
ZeroTime == 0

\* A time.Duration is an int64 count of nanoseconds.  It is kept as the four
\* 16-bit words of its two's complement, the lowest first, so that a product
\* that overflows wraps around as it does in the program.
Word == 65536
ZeroDuration == <<0, 0, 0, 0>>

\* (a * c + d) in 64 bits, for a factor c and an addend d of at most 10^4.
MulAdd(a, c, d) ==
    LET p1 == a[1] * c + d
        p2 == a[2] * c + (p1 \div Word)
        p3 == a[3] * c + (p2 \div Word)
        p4 == a[4] * c + (p3 \div Word)
    IN  <<p1 % Word, p2 % Word, p3 % Word, p4 % Word>>

\* -a in 64 bits.
Negate(a) == MulAdd(<<Word - 1 - a[1], Word - 1 - a[2], Word - 1 - a[3], Word - 1 - a[4]>>, 1, 1)

\* a < 0, for the int64 a.
Negative(a) == a[4] >= Word \div 2

\* a < b for two int64 that are not negative.
Below(a, b) ==
    \E i \in 1..4 : a[i] < b[i] /\ \A j \in (i + 1)..4 : a[j] = b[j]

\* The low 64 bits of acc * 10^Len(ds) + ds, four digits at a time.
RECURSIVE Horner(_, _)
Horner(acc, ds) ==
    IF ds = <<>> THEN acc
    ELSE LET k == IF Len(ds) % 4 = 0 THEN 4 ELSE Len(ds) % 4
         IN  Horner(MulAdd(acc, IF k = 4 THEN 10000 ELSE IF k = 3 THEN 1000
                                ELSE IF k = 2 THEN 100 ELSE 10,
                           DigitsVal(SubSeq(ds, 1, k))),
                    SubSeq(ds, k + 1, Len(ds)))

NineZeros == <<"0", "0", "0", "0", "0", "0", "0", "0", "0">>

\* time.Duration(secs) * time.Second: the product by 10^9, in 64 bits.
Seconds(secs) ==
    LET product == Horner(ZeroDuration, secs.digits \o NineZeros)
    IN  IF secs.neg THEN Negate(product) ELSE product

\* The time.Duration of n whole seconds, for a small natural number n.
Sec(n) == MulAdd(MulAdd(MulAdd(<<n, 0, 0, 0>>, 10000, 0), 10000, 0), 10, 0)

\* t.After(u.Add(d)) for the times t and u, in seconds, and the duration d.
After(t, u, d) ==
    IF t >= u THEN Negative(d) \/ Below(d, Sec(t - u))
    ELSE Negative(d) /\ Below(Sec(u - t), Negate(d))

\* type directive struct
Directive(received, maxAge, includeSubDomains) ==
    [received |-> received, maxAge |-> maxAge, includeSubDomains |-> includeSubDomains]

\* The variables parse declares before its loop.
ParseStart == [directives |-> {}, maxAge |-> ZeroDuration, includeSubDomains |-> FALSE]

\* The loop body without the test for a name already seen.
ParseDirectiveLastWins(acc, directive) ==
    LET hasEq == Contains(directive, "=")
        nv    == SplitN2(directive, "=")
        name  == ToLower(TrimSpace(IF hasEq THEN nv[1] ELSE directive))
        value == TrimSpace(IF hasEq THEN nv[2] ELSE <<>>)
        seen   == [acc EXCEPT !.directives = @ \cup {name}]
        quoted == HasPrefix(value, DQ) /\ HasSuffix(value, DQ)
        uq     == Unquote(value)
        v      == IF quoted THEN uq.v ELSE value
    IN  IF quoted /\ ~uq.ok THEN seen
        ELSE IF name = MaxAgeName THEN
               LET a == Atoi(v)
               IN  IF ~a.ok THEN seen
                   ELSE [seen EXCEPT !.maxAge = Seconds(a.n)]
        ELSE IF name = IncludeSubDomainsName THEN
               IF v # <<>> THEN seen
               ELSE [seen EXCEPT !.includeSubDomains = TRUE]
        ELSE seen

\* One iteration of the loop of parse over the fields of the header.
ParseDirective(acc, directive) ==
    LET hasEq == Contains(directive, "=")
        nv    == SplitN2(directive, "=")
        name  == ToLower(TrimSpace(IF hasEq THEN nv[1] ELSE directive))
        value == TrimSpace(IF hasEq THEN nv[2] ELSE <<>>)
    IN  IF name \in acc.directives THEN acc
        ELSE
          LET seen   == [acc EXCEPT !.directives = @ \cup {name}]
              quoted == HasPrefix(value, DQ) /\ HasSuffix(value, DQ)
              uq     == Unquote(value)
              v      == IF quoted THEN uq.v ELSE value
          IN  IF quoted /\ ~uq.ok THEN seen
              ELSE IF name = MaxAgeName THEN
                     LET a == Atoi(v)
                     IN  IF ~a.ok THEN seen
                         ELSE [seen EXCEPT !.maxAge = Seconds(a.n)]
              ELSE IF name = IncludeSubDomainsName THEN
                     IF v # <<>> THEN seen
                     ELSE [seen EXCEPT !.includeSubDomains = TRUE]
              ELSE seen

RECURSIVE ParseLoop(_, _)
ParseLoop(acc, fields) ==
    IF fields = <<>> THEN acc
    ELSE ParseLoop(ParseDirective(acc, Head(fields)), Tail(fields))

\* parse(header) called at time t: nil, or a pointer to a directive.
parse(hdr, t) ==
    LET acc == ParseLoop(ParseStart, Split(hdr, ";"))
    IN  IF MaxAgeName \notin acc.directives THEN Nil
        ELSE Ptr(Directive(t, acc.maxAge, acc.includeSubDomains))

(***************************************************************************)
(* Maps: a map[string]*directive is a function whose domain is its keys.    *)
(***************************************************************************)
EmptyMap == [k \in {} |-> Nil]
\* delete(m, k)
Delete(m, k) == [x \in (DOMAIN m) \ {k} |-> m[x]]
\* m[k] = v
Put(m, k, v) == [x \in (DOMAIN m) \cup {k} |-> IF x = k THEN v ELSE m[x]]

(***************************************************************************)
(* Hosts, URLs, requests and responses.                                    *)
(***************************************************************************)
ExampleCom == <<"example", ".", "com">>
SubExampleCom == <<"sub", ".">> \o ExampleCom
AccountsGoogleCom == <<"accounts", ".", "google", ".", "com">>
XAccountsGoogleCom == <<"x", ".">> \o AccountsGoogleCom
LoginYahooCom == <<"login", ".", "yahoo", ".", "com">>
ExampleCom80 == ExampleCom \o <<":", "8", "0">>
ExampleCom8080 == ExampleCom \o <<":", "8", "0", "8", "0">>
\* The authority [::1]:80, character by character.
IPv6Loopback80 == <<"[", ":", ":", "1", "]", ":", "8", "0">>

\* The generated preload.go: var preload = map[string]bool{host: includeSubDomains}.
\* The two hosts are the ones the tests expect in it, with their subdomains.
preload == (AccountsGoogleCom :> TRUE) @@ (LoginYahooCom :> TRUE)

\* A run's client talks to the hosts of one of these sets.
ClientHosts ==
    { {ExampleCom, SubExampleCom},
      {AccountsGoogleCom, XAccountsGoogleCom},
      {ExampleCom, ExampleCom80, ExampleCom8080},
      {IPv6Loopback80} }

URL(scheme, host) == [Scheme |-> scheme, Host |-> host]
Request(url) == [URL |-> url]
NoRequest == Request(URL("", <<>>))
Requests(hs) == {Request(URL(s, h)) : s \in {"http", "https"}, h \in hs}

\* (*url.URL).String() of a URL with a scheme, a host and nothing else.
URLString(u) == <<u.Scheme, "://">> \o u.Host

STS == "Strict-Transport-Security"
\* http.Header.Get(name): the empty string when the header is absent.
Get(hdrs, name) == IF name \in DOMAIN hdrs THEN hdrs[name] ELSE <<>>

Response(code, hdrs, r) == [StatusCode |-> code, Header |-> hdrs, Request |-> r]
\* An error is nil or a pointer to its message.
NoResult == [resp |-> Nil, err |-> Nil]

\* http.StatusTemporaryRedirect and http.StatusText of it.
StatusTemporaryRedirect == 307
StatusText(code) == IF code = StatusTemporaryRedirect THEN "Temporary Redirect" ELSE ""

\* The message with the Location header left out.
RedirectMessageNoLocation(code, location) ==
    <<"HTTP/1.1", " ">> \o IntString(code) \o <<" ", StatusText(code), "\r\n", "\r\n">>

\* fmt.Sprintf("HTTP/1.1 %d %s\r\nLocation: %s\r\n\r\n", code, text, location)
RedirectMessage(code, location) ==
    <<"HTTP/1.1", " ">> \o IntString(code) \o <<" ", StatusText(code), "\r\n">>
        \o <<"Location", ":", " ">> \o location \o <<"\r\n", "\r\n">>

\* One header line "Name: value" of a message, added to the header map.
ReadHeaderLine(hdrs, line) ==
    LET i == Index(line, ":")
    IN  IF i = 0 THEN hdrs
        ELSE Put(hdrs, line[1], TrimSpace(From(line, i + 1)))

RECURSIVE ReadHeaderLines(_, _)
ReadHeaderLines(hdrs, lines) ==
    IF lines = <<>> \/ Head(lines) = <<>> THEN hdrs
    ELSE ReadHeaderLines(ReadHeaderLine(hdrs, Head(lines)), Tail(lines))

\* reply(req, s): http.ReadResponse of the message s, as the response to req.
reply(r, s) ==
    LET lines  == Split(s, "\r\n")
        status == Split(Head(lines), " ")
    IN  [resp |-> Ptr(Response(FromInt64(Atoi(status[2]).n),
                               ReadHeaderLines(EmptyMap, Tail(lines)), r)),
         err  |-> Nil]

(***************************************************************************)
(* transport.go                                                            *)
(***************************************************************************)
RECURSIVE find(_, _, _)
\* find with the includeSubDomains test left out.
findAnyRecord(state, host, exact) ==
    IF host \in DOMAIN state
    THEN Ptr(state[host])
    ELSE LET i == Index(host, ".")
         IN  IF i = 0 THEN Nil
             ELSE find(state, From(host, i + 1), FALSE)

\* find(host, exact) on the map state: nil, or a pointer to the directive.
find(state, host, exact) ==
    IF host \in DOMAIN state /\ (exact \/ state[host].includeSubDomains)
    THEN Ptr(state[host])
    ELSE LET i == Index(host, ".")
         IN  IF i = 0 THEN Nil
             ELSE find(state, From(host, i + 1), FALSE)

\* The copy of the request URL rewritten by needsUpgrade.
UpgradeURL(url) ==
    LET scheme == IF url.Scheme = "http" THEN "https" ELSE url.Scheme
        hp     == SplitN2(url.Host, ":")
        port   == Atoi(hp[2])
    IN  IF Contains(url.Host, ":") /\ port.ok
        THEN URL(scheme, hp[1] \o <<":">> \o
                         Itoa(IF port.n = ToInt64(80) THEN ToInt64(443) ELSE port.n))
        ELSE URL(scheme, url.Host)

\* Expired without the exemption of preloaded directives.
ExpiredAlsoPreloaded(d, t) == After(t, d.received, d.maxAge)

\* Expired with the deadline itself counted as expired.
ExpiredAtDeadline(d, t) ==
    LET preloaded == d.received = ZeroTime
    IN  ~preloaded /\ After(t + 1, d.received, d.maxAge)

\* Whether needsUpgrade treats the directive d as expired at time t.
Expired(d, t) ==
    LET preloaded == d.received = ZeroTime
    IN  ~preloaded /\ After(t, d.received, d.maxAge)

\* needsUpgrade rewriting the URL of the request itself instead of a copy.
needsUpgradeInPlace(state, r, t) ==
    IF r.URL.Scheme # "http" THEN [u |-> Nil, ok |-> FALSE, state |-> state, req |-> r]
    ELSE
      LET host == r.URL.Host
          d    == find(state, host, TRUE)
      IN  IF d.nil THEN [u |-> Nil, ok |-> FALSE, state |-> state, req |-> r]
          ELSE IF Expired(d.v, t)
               THEN [u |-> Nil, ok |-> FALSE, state |-> Delete(state, host), req |-> r]
          ELSE [u |-> Ptr(UpgradeURL(r.URL)), ok |-> TRUE, state |-> state,
                req |-> Request(UpgradeURL(r.URL))]

\* needsUpgrade(req) at time t on the map state: the URL to redirect to, whether
\* an upgrade is needed, and the map and the request as the call leaves them
\* (u is a copy of *req.URL, so the fields it sets are not those of the request).
needsUpgrade(state, r, t) ==
    IF r.URL.Scheme # "http" THEN [u |-> Nil, ok |-> FALSE, state |-> state, req |-> r]
    ELSE
      LET host == r.URL.Host
          d    == find(state, host, TRUE)
      IN  IF d.nil THEN [u |-> Nil, ok |-> FALSE, state |-> state, req |-> r]
          ELSE IF Expired(d.v, t)
               THEN [u |-> Nil, ok |-> FALSE, state |-> Delete(state, host), req |-> r]
          ELSE [u |-> Ptr(UpgradeURL(r.URL)), ok |-> TRUE, state |-> state, req |-> r]

\* add without the max-age 0 case.
addAlways(state, host, d) == Put(state, host, d)

\* add(host, d) on the map state.
add(state, host, d) ==
    IF d.maxAge = ZeroDuration THEN Delete(state, host)
    ELSE Put(state, host, d)

\* processResponse(resp) at time t on the map state.
processResponse(state, resp, t) ==
    LET hdr == Get(resp.Header, STS)
        d   == parse(hdr, t)
    IN  IF hdr = <<>> THEN state
        ELSE IF d.nil THEN state
        ELSE add(state, resp.Request.URL.Host, d.v)

\* RoundTrip going on to processResponse whenever it got a response.
RoundTripResultProcessing(state, w, t) ==
    IF w.resp.nil THEN [resp |-> w.resp, err |-> w.err, state |-> state]
    ELSE [resp |-> w.resp, err |-> w.err, state |-> processResponse(state, w.resp.v, t)]

\* RoundTrip from the return of the wrapped RoundTripper with w = [resp, err],
\* at time t on the map state: what it returns and the map as it leaves it.
RoundTripResult(state, w, t) ==
    IF ~w.err.nil THEN [resp |-> w.resp, err |-> w.err, state |-> state]
    ELSE [resp |-> w.resp, err |-> Nil, state |-> processResponse(state, w.resp.v, t)]

\* A map shared by every Transport instead of a new one.
MakeMapShared(h) == 1

\* make(map[string]*directive): the index of the new map object in the heap.
MakeMap(h) == Len(h) + 1

\* The map New fills from preload.
PreloadedState == [h \in DOMAIN preload |-> Directive(ZeroTime, ZeroDuration, preload[h])]

\* The map object of Transport t.
State(t) == heap[transports[t].state]

(***************************************************************************)
(* The wrapped RoundTripper and the headers it answers with.               *)
(***************************************************************************)
MaxAgeEq == MaxAgeName \o <<"=">>
SubDomainsField == <<"i", "n", "c", "l", "u", "d", "e", "S", "u", "b", "D", "o", "m", "a", "i", "n", "s">>
HdrMaxAge1 == MaxAgeEq \o <<"1">>
HdrMaxAge1Sub == MaxAgeEq \o <<"1", ";", " ">> \o SubDomainsField
HdrMaxAge3600Sub == MaxAgeEq \o <<"3", "6", "0", "0", ";", " ">> \o SubDomainsField
HdrMaxAge0 == MaxAgeEq \o <<"0">>
HdrSingleQuoted == MaxAgeEq \o <<"'", "1", "2", "3", "4", "'">>
HdrOnlySub == SubDomainsField
HdrMaxAgeMinus1 == MaxAgeEq \o <<"-", "1">>
\* max-age of 2^55 seconds, whose count of nanoseconds is 2^64 * 1953125.
HdrMaxAge2To55 ==
    MaxAgeEq \o <<"3", "6", "0", "2", "8", "7", "9", "7", "0", "1", "8", "9", "6", "3", "9", "6", "8">>

\* The Strict-Transport-Security values of the responses of the wrapped
\* RoundTripper; the empty string stands for a response without the header.
WrapHeaders ==
    { <<>>, HdrMaxAge1, HdrMaxAge1Sub, HdrMaxAge3600Sub, HdrMaxAge0,
      HdrSingleQuoted, HdrOnlySub, HdrMaxAge2To55 }

\* The response of the wrapped RoundTripper to the request r.
WrapResponse(r, hdr) ==
    Response(200, IF hdr = <<>> THEN EmptyMap ELSE (STS :> hdr), r)

\* The errors of the wrapped RoundTripper.
WrapErrors == {"timeout", "connection refused"}

\* What the wrapped RoundTripper returns when it fails on the request r: an
\* error, with no response or with the response it had got so far.
WrapFailures(r) ==
    {[resp |-> rp, err |-> Ptr(e)] :
        rp \in {Nil, Ptr(WrapResponse(r, HdrMaxAge3600Sub))}, e \in WrapErrors}

(***************************************************************************)
(* The state machine.                                                      *)
(***************************************************************************)
\* The heap h with the map object m stored at index ref.
HeapWith(h, ref, m) == IF ref = Len(h) + 1 THEN Append(h, m) ELSE [h EXCEPT ![ref] = m]

\* The map object at index ref after the loop of New over preload.
Preloaded(h, ref) ==
    LET m == IF ref = Len(h) + 1 THEN EmptyMap ELSE h[ref]
    IN  [x \in (DOMAIN m) \cup (DOMAIN preload) |->
            IF x \in DOMAIN preload THEN Directive(ZeroTime, ZeroDuration, preload[x])
            ELSE m[x]]

\* The state after the first call of New, for a client of the hosts hs.
Start(hs) ==
    /\ now = 1
    /\ hosts = hs
    /\ heap = <<PreloadedState>>
    /\ transports = <<[state |-> 1]>>
    /\ pc = "idle"
    /\ cur = 1
    /\ req = NoRequest
    /\ sent = <<>>
    /\ wrapped = NoResult
    /\ out = NoResult
    /\ header = <<>>
    /\ parsed = Nil
    /\ mutex = 0
    /\ calls = <<>>

Init == \E hs \in ClientHosts : Start(hs)

\* New(transport)
New ==
    /\ pc = "idle"
    /\ Len(transports) < MaxTransports
    /\ LET ref == MakeMap(heap)
       IN  /\ heap' = HeapWith(heap, ref, Preloaded(heap, ref))
           /\ transports' = Append(transports, [state |-> ref])
    /\ UNCHANGED <<now, hosts, pc, cur, req, sent, wrapped, out, header, parsed, mutex, calls>>

\* RoundTrip(req) on Transport t, up to its return with a redirect or to its
\* call of the wrapped RoundTripper.
RoundTripRequest(t, r) ==
    /\ pc = "idle"
    /\ LET n == needsUpgrade(State(t), r, now)
       IN  /\ heap' = [heap EXCEPT ![transports[t].state] = n.state]
           /\ req' = n.req
           /\ IF n.ok
              THEN /\ out' = reply(n.req, RedirectMessage(StatusTemporaryRedirect,
                                                          URLString(n.u.v)))
                   /\ sent' = <<>>
                   /\ pc' = "done"
              ELSE /\ out' = NoResult
                   /\ sent' = <<n.req>>
                   /\ pc' = "wrap"
    /\ cur' = t
    /\ UNCHANGED <<now, hosts, transports, wrapped, header, parsed, mutex, calls>>

\* The wrapped RoundTripper returns w = [resp, err]: RoundTrip goes on to its return.
WrapReturn(w) ==
    /\ pc = "wrap"
    /\ wrapped' = w
    /\ LET res == RoundTripResult(State(cur), w, now)
       IN  /\ heap' = [heap EXCEPT ![transports[cur].state] = res.state]
           /\ out' = [resp |-> res.resp, err |-> res.err]
    /\ pc' = "done"
    /\ UNCHANGED <<now, hosts, transports, cur, req, sent, header, parsed, mutex, calls>>

\* The wrapped RoundTripper returns a response: RoundTrip processes and returns it.
WrapRespond(hdr) ==
    /\ pc = "wrap"
    /\ WrapReturn([resp |-> Ptr(WrapResponse(sent[Len(sent)], hdr)), err |-> Nil])

\* The wrapped RoundTripper returns an error: RoundTrip returns it.
WrapFail ==
    /\ pc = "wrap"
    /\ \E w \in WrapFailures(sent[Len(sent)]) : WrapReturn(w)

\* The caller takes the result of RoundTrip.
Return ==
    /\ pc = "done"
    /\ pc' = "idle"
    /\ req' = NoRequest
    /\ sent' = <<>>
    /\ wrapped' = NoResult
    /\ out' = NoResult
    /\ UNCHANGED <<now, hosts, heap, transports, cur, header, parsed, mutex, calls>>

\* A second passes.
Tick ==
    /\ now < MaxTime
    /\ now' = now + 1
    /\ UNCHANGED <<hosts, heap, transports, pc, cur, req, sent, wrapped, out, header,
                   parsed, mutex, calls>>

Next ==
    \/ \E t \in 1..Len(transports), r \in Requests(hosts) : RoundTripRequest(t, r)
    \/ \E hdr \in WrapHeaders : WrapRespond(hdr)
    \/ WrapFail
    \/ Return
    \/ Tick

Spec == Init /\ [][Next]_vars

\* The runs in which the max-age values of the responses are signed integers.
SignedHeaders == { HdrMaxAge1, HdrMaxAgeMinus1, HdrMaxAge0 }

NextSigned ==
    \/ \E t \in 1..Len(transports), r \in Requests(hosts) : RoundTripRequest(t, r)
    \/ \E hdr \in SignedHeaders : WrapRespond(hdr)
    \/ WrapFail
    \/ Return
    \/ Tick

SpecSigned == Init /\ [][NextSigned]_vars

\* The runs in which no response to a preloaded host carries max-age=0.
RespondKeeping(hdr) ==
    /\ pc = "wrap"
    /\ ~(hdr = HdrMaxAge0 /\ sent[Len(sent)].URL.Host \in DOMAIN preload)
    /\ WrapRespond(hdr)
NextKeep ==
    \/ \E t \in 1..Len(transports), r \in Requests(hosts) : RoundTripRequest(t, r)
    \/ \E hdr \in WrapHeaders : RespondKeeping(hdr)
    \/ WrapFail
    \/ Return
    \/ Tick
SpecKeep == Init /\ [][NextKeep]_vars

\* Several Transports built by New, used by a client of one preloaded host.
InitNew == Start({AccountsGoogleCom})
NextNew == Next \/ New
SpecNew == InitNew /\ [][NextNew]_vars

(***************************************************************************)
(* Stand-alone calls of parse.                                             *)
(***************************************************************************)
ParseFields ==
    { MaxAgeEq \o <<"1", "2", "3", "4">>,
      MaxAgeEq \o <<"0">>,
      <<" ">> \o MaxAgeEq \o <<"0">>,
      MaxAgeEq \o <<"'", "1", "2", "3", "4", "'">>,
      MaxAgeEq \o <<"\"", "5", "6", "7", "8", "\"">>,
      MaxAgeEq \o <<"\"", "5", "6">>,
      MaxAgeEq \o <<"\"">>,
      MaxAgeEq \o <<"\"", "5", "\"", "6", "\"">>,
      MaxAgeEq \o <<"a", "b", "c">>,
      MaxAgeEq \o <<"-", "1">>,
      MaxAgeEq \o <<"+", "7">>,
      MaxAgeEq,
      MaxAgeName,
      <<"M", "a", "X", "-", "A", "g", "E", "=", "1", "2", "3", "4">>,
      <<" ", "\t", " ">> \o MaxAgeName \o <<" ", "=", " ", "1", "2", " ", "\t">>,
      SubDomainsField,
      <<"I", "n", "C", "l", "U", "d", "E", "s", "U", "b", "D", "o", "M", "a", "I", "n", "S">>,
      SubDomainsField \o <<"=", "1">>,
      <<" ", "\t">> \o SubDomainsField \o <<"\t", " ">>,
      <<"f", "o", "o", "=", "b", "a", "r">>,
      <<" ", "\t", " ">>,
      <<>> }

\* The headers of n fields, separated by ";".
RECURSIVE HeadersOf(_)
HeadersOf(n) ==
    IF n = 1 THEN ParseFields
    ELSE {h \o <<";">> \o f : h \in HeadersOf(n - 1), f \in ParseFields}

ParseHeaders == UNION {HeadersOf(n) : n \in 1..MaxFields}

InitParse ==
    /\ now \in 1..MaxTime
    /\ hosts = {}
    /\ heap = <<>>
    /\ transports = <<>>
    /\ pc = "parse"
    /\ cur = 0
    /\ req = NoRequest
    /\ sent = <<>>
    /\ wrapped = NoResult
    /\ out = NoResult
    /\ header \in ParseHeaders
    /\ parsed = Nil
    /\ mutex = 0
    /\ calls = <<>>

\* parse(header)
Parse ==
    /\ pc = "parse"
    /\ parsed' = parse(header, now)
    /\ pc' = "parsed"
    /\ UNCHANGED <<now, hosts, heap, transports, cur, req, sent, wrapped, out, header,
                   mutex, calls>>

NextParse == Parse
SpecParse == InitParse /\ [][NextParse]_vars

(***************************************************************************)
(* Concurrent RoundTrip calls on one Transport.  Each of the goroutines     *)
(* 1..MaxCallers makes one call.  A goroutine takes a step of its own at    *)
(* each Lock, which returns only once the mutex is unlocked; the code       *)
(* between a Lock and its deferred Unlock is one step, and so is the code   *)
(* outside the mutex between two calls that block.                          *)
(***************************************************************************)
\* A RoundTrip call:
\*   pc    idle, lock (needsUpgrade at t.m.Lock()), locked, wrap (the wrapped
\*         RoundTripper is called), addlock (add at t.m.Lock()), addlocked, done
\*   req   the request
\*   ok    the second result of needsUpgrade
\*   tr    time.Now() as needsUpgrade read it, 0 when it did not
\*   d     the directive processResponse parsed
\*   rt, at  the rank of the Lock of needsUpgrade and of the Lock of add among
\*         the Lock calls that returned, 0 before they return
IdleCall ==
    [pc |-> "idle", req |-> NoRequest, ok |-> FALSE, tr |-> 0, d |-> Nil, rt |-> 0, at |-> 0]

Callers == 1..MaxCallers

\* The requests and the Strict-Transport-Security values of the concurrent calls.
ConcRequests == Requests({ExampleCom})
ConcHeaders == {<<>>, HdrMaxAge1, HdrMaxAge0}
ConcErrors == {"timeout"}

\* The number of Lock calls that returned.
Acquired ==
    Cardinality({c \in Callers : calls[c].rt > 0}) + Cardinality({c \in Callers : calls[c].at > 0})

\* Lock returning although the mutex is locked.
LockedOrNot(m) == TRUE

\* t.m.Lock() returns for a mutex in the state m.
Unlocked(m) == m = 0

\* needsUpgrade returning without the deferred Unlock.
StillLocked(m) == m

\* t.m.Unlock()
Unlock(m) == 0

InitConc ==
    /\ now = 1
    /\ hosts = {ExampleCom}
    /\ heap = <<PreloadedState>>
    /\ transports = <<[state |-> 1]>>
    /\ pc = "idle"
    /\ cur = 1
    /\ req = NoRequest
    /\ sent = <<>>
    /\ wrapped = NoResult
    /\ out = NoResult
    /\ header = <<>>
    /\ parsed = Nil
    /\ mutex = 0
    /\ calls = [c \in Callers |-> IdleCall]

\* Goroutine c calls RoundTrip(r): needsUpgrade returns at once for a scheme
\* other than http, and reaches t.m.Lock() otherwise.  The goroutines are
\* numbered in the order of their calls.
ConcRoundTrip(c, r) ==
    /\ calls[c].pc = "idle"
    /\ c > 1 => calls[c - 1].pc # "idle"
    /\ calls' = [calls EXCEPT ![c].req = r,
                              ![c].pc = IF r.URL.Scheme # "http" THEN "wrap" ELSE "lock"]
    /\ UNCHANGED <<now, hosts, heap, transports, pc, cur, req, sent, wrapped, out, header,
                   parsed, mutex>>

\* t.m.Lock() returns in goroutine c, in needsUpgrade or in add.
Lock(c) ==
    /\ calls[c].pc \in {"lock", "addlock"}
    /\ Unlocked(mutex)
    /\ mutex' = c
    /\ calls' = IF calls[c].pc = "lock"
                THEN [calls EXCEPT ![c].pc = "locked", ![c].rt = Acquired + 1]
                ELSE [calls EXCEPT ![c].pc = "addlocked", ![c].at = Acquired + 1]
    /\ UNCHANGED <<now, hosts, heap, transports, pc, cur, req, sent, wrapped, out, header,
                   parsed>>

\* needsUpgrade from its Lock to its return in goroutine c, and RoundTrip up
\* to its return with the redirect or to its call of the wrapped RoundTripper.
ConcNeedsUpgrade(c) ==
    /\ calls[c].pc = "locked"
    /\ LET n == needsUpgrade(State(1), calls[c].req, now)
           d == find(State(1), calls[c].req.URL.Host, TRUE)
       IN  /\ heap' = [heap EXCEPT ![transports[1].state] = n.state]
           /\ calls' = [calls EXCEPT ![c].ok = n.ok,
                                     ![c].tr = IF d.nil \/ d.v.received = ZeroTime
                                               THEN 0 ELSE now,
                                     ![c].pc = IF n.ok THEN "done" ELSE "wrap"]
    /\ mutex' = Unlock(mutex)
    /\ UNCHANGED <<now, hosts, transports, pc, cur, req, sent, wrapped, out, header, parsed>>

\* The wrapped RoundTripper returns a response to goroutine c: processResponse
\* parses its header and returns, or calls add, which reaches t.m.Lock().
ConcWrapRespond(c, hdr) ==
    /\ calls[c].pc = "wrap"
    /\ LET d == IF hdr = <<>> THEN Nil ELSE parse(hdr, now)
       IN  calls' = [calls EXCEPT ![c].d = d,
                                  ![c].pc = IF d.nil THEN "done" ELSE "addlock"]
    /\ UNCHANGED <<now, hosts, heap, transports, pc, cur, req, sent, wrapped, out, header,
                   parsed, mutex>>

\* The wrapped RoundTripper returns an error to goroutine c: RoundTrip returns it.
ConcWrapFail(c) ==
    /\ calls[c].pc = "wrap"
    /\ \E e \in ConcErrors : calls' = [calls EXCEPT ![c].pc = "done"]
    /\ UNCHANGED <<now, hosts, heap, transports, pc, cur, req, sent, wrapped, out, header,
                   parsed, mutex>>

\* add from its Lock to its return in goroutine c, and the return of RoundTrip.
ConcAdd(c) ==
    /\ calls[c].pc = "addlocked"
    /\ heap' = [heap EXCEPT ![transports[1].state] =
                    add(State(1), calls[c].req.URL.Host, calls[c].d.v)]
    /\ calls' = [calls EXCEPT ![c].pc = "done"]
    /\ mutex' = Unlock(mutex)
    /\ UNCHANGED <<now, hosts, transports, pc, cur, req, sent, wrapped, out, header, parsed>>

NextConc ==
    \/ \E c \in Callers, r \in ConcRequests : ConcRoundTrip(c, r)
    \/ \E c \in Callers : Lock(c)
    \/ \E c \in Callers : ConcNeedsUpgrade(c)
    \/ \E c \in Callers, hdr \in ConcHeaders : ConcWrapRespond(c, hdr)
    \/ \E c \in Callers : ConcWrapFail(c)
    \/ \E c \in Callers : ConcAdd(c)
    \/ Tick

SpecConc == InitConc /\ [][NextConc]_vars

(***************************************************************************)
(* Properties.                                                             *)
(***************************************************************************)
\* This step is the request phase of a RoundTrip call.
Started == pc = "idle" /\ pc' # "idle"
\* This step is the response phase of a RoundTrip call.
Responded == pc = "wrap" /\ pc' = "done" /\ out'.err.nil
\* RoundTrip returned a redirect without calling the wrapped RoundTripper.
Redirected ==
    /\ pc = "done"
    /\ sent = <<>>
    /\ out.err.nil
    /\ ~out.resp.nil
    /\ out.resp.v.StatusCode = 307
\* RoundTrip handed the request to the wrapped RoundTripper as it was.
PassedOn == pc = "wrap" /\ sent = <<req>>

\* The map object of Transport t after this step.
StateAfter(t) == heap'[transports'[t].state]

HTTP(h) == Request(URL("http", h))
HTTPS(h) == Request(URL("https", h))

\* A policy record that is preloaded, or is not past received + maxAge at t.
Unexpired(d, t) == d.received = ZeroTime \/ ~After(t, d.received, d.maxAge)

\* The ancestor domains of a host: what follows each "." of it.
Ancestors(host) == {From(host, i + 1) : i \in {j \in 1..Len(host) : host[j] = "."}}

\* The store S holds at time t an unexpired policy for the host itself, or
\* for an ancestor domain with includeSubDomains.
Covered(S, host, t) ==
    \/ host \in DOMAIN S /\ Unexpired(S[host], t)
    \/ \E a \in Ancestors(host) :
          a \in DOMAIN S /\ S[a].includeSubDomains /\ Unexpired(S[a], t)

\* C1: RoundTrip never hands an http request to the wrapped RoundTripper when,
\* at its request phase, the store holds an unexpired or preloaded policy for
\* the request host or for an ancestor domain with includeSubDomains.
C1_NoPlaintextToKnownHost ==
    [][(Started /\ req'.URL.Scheme = "http"
                /\ Covered(State(cur'), req'.URL.Host, now))
          => sent' = <<>>]_vars

\* The store S holds at time t the record learned for example.com from
\* "max-age=3600; includeSubDomains", not expired and not replaced.
Learned3600(S, t) ==
    /\ ExampleCom \in DOMAIN S
    /\ S[ExampleCom].received # ZeroTime
    /\ S[ExampleCom].maxAge = Sec(3600)
    /\ S[ExampleCom].includeSubDomains
    /\ t <= S[ExampleCom].received + 3600

\* C2: with no policy for example.com or an ancestor, an http request to
\* example.com is handed to the wrapped RoundTripper; once a response for
\* example.com carrying "max-age=3600; includeSubDomains" has been observed,
\* every http request to example.com and to sub.example.com made while that
\* record is in the store and unexpired is upgraded.
C2_LearnedPolicyUpgrades ==
    [][(Started /\ req'.URL.Scheme = "http") =>
          LET S == State(cur')
              h == req'.URL.Host
          IN  /\ (h = ExampleCom /\ ExampleCom \notin DOMAIN S
                    /\ \A a \in Ancestors(ExampleCom) : a \notin DOMAIN S)
                   => PassedOn'
              /\ (h \in {ExampleCom, SubExampleCom} /\ Learned3600(S, now))
                   => Redirected']_vars

\* An http request to the host h on Transport t would be upgraded now.
Upgrades(t, h) == needsUpgrade(State(t), HTTP(h), now).ok

\* C3 as claimed, for the runs of SpecKeep (no max-age=0 response to a
\* preloaded host): a preloaded host never stops being upgraded because of
\* the passage of time.
C3_NeverStopsByTime ==
    [][now' # now =>
          \A h \in DOMAIN preload : Upgrades(1, h) => Upgrades(1, h)']_vars

\* C3 amended: a preloaded record is upgraded from the first request and at
\* every clock value, for as long as it is the store's record for its host;
\* it leaves the store only in the response phase of a call to that host
\* whose Strict-Transport-Security header parse turns into a directive.
C3_PreloadedRecordPermanent ==
    [][\A t \in 1..Len(transports) : \A h \in DOMAIN State(t) :
          State(t)[h].received = ZeroTime =>
             /\ Upgrades(t, h)
             /\ needsUpgrade(State(t), HTTP(h), now).state = State(t)
             /\ (h \notin DOMAIN State(t)' \/ State(t)'[h] # State(t)[h]) =>
                   /\ Responded
                   /\ cur = t
                   /\ out'.resp.v.Request.URL.Host = h
                   /\ ~parse(Get(out'.resp.v.Header, STS), now).nil]_vars

\* C3 witness: after a response observed two seconds after construction (the
\* record it left for the subdomain), an http request to the preloaded host,
\* whose record is still the preloaded one, has been answered with the redirect.
C3_Witness ==
    /\ Redirected
    /\ req = HTTP(AccountsGoogleCom)
    /\ XAccountsGoogleCom \in DOMAIN State(cur)
    /\ State(cur)[XAccountsGoogleCom].received >= 3
    /\ AccountsGoogleCom \in DOMAIN State(cur)
    /\ State(cur)[AccountsGoogleCom].received = ZeroTime

\* C4: a max-age=0 response for a host with a record deletes the record, and
\* an http request to a host without a record, no ancestor of which has a
\* record with includeSubDomains, is handed to the wrapped RoundTripper.
C4_MaxAgeZeroForgets ==
    [][/\ (Responded /\ Get(out'.resp.v.Header, STS) = HdrMaxAge0
             /\ out'.resp.v.Request.URL.Host \in DOMAIN State(cur))
          => out'.resp.v.Request.URL.Host \notin DOMAIN State(cur)'
       /\ (Started /\ req'.URL.Scheme = "http"
             /\ req'.URL.Host \notin DOMAIN State(cur')
             /\ \A a \in Ancestors(req'.URL.Host) :
                   a \in DOMAIN State(cur') => ~State(cur')[a].includeSubDomains)
          => PassedOn' /\ heap' = heap]_vars

\* C4 witness: the preloaded host has lost its record and an http request to
\* it is with the wrapped RoundTripper.
C4_Witness ==
    /\ PassedOn
    /\ req = HTTP(AccountsGoogleCom)
    /\ AccountsGoogleCom \notin DOMAIN State(cur)

\* The name and the value of a field of the header, as the grammar has them.
FieldName(f) == ToLower(TrimSpace(IF Contains(f, "=") THEN SplitN2(f, "=")[1] ELSE f))
FieldValue(f) == TrimSpace(IF Contains(f, "=") THEN SplitN2(f, "=")[2] ELSE <<>>)
\* The field is a max-age directive whose value, bare or in double quotes,
\* is an integer.
ValidMaxAgeField(f) ==
    /\ FieldName(f) = MaxAgeName
    /\ \/ Atoi(FieldValue(f)).ok
       \/ /\ HasPrefix(FieldValue(f), DQ)
          /\ Unquote(FieldValue(f)).ok
          /\ Atoi(Unquote(FieldValue(f)).v).ok
HasValidMaxAge(hdr) ==
    \E i \in 1..Len(Split(hdr, ";")) : ValidMaxAgeField(Split(hdr, ";")[i])

\* C5: a response whose header has no valid max-age directive never changes
\* the store; the store changes only in the response phase of a header with a
\* valid max-age, or in a request phase that finds the matched record expired.
C5_MalformedNeverChangesStore ==
    [][/\ (Responded /\ ~HasValidMaxAge(Get(out'.resp.v.Header, STS)))
          => heap' = heap
       /\ heap' # heap =>
             \/ Responded /\ HasValidMaxAge(Get(out'.resp.v.Header, STS))
             \/ /\ Started
                /\ ~find(State(cur'), req'.URL.Host, TRUE).nil
                /\ ~Unexpired(find(State(cur'), req'.URL.Host, TRUE).v, now)]_vars

\* C6: parse returns nil for every header without a valid max-age directive.
C6_InvalidWithoutMaxAge ==
    (pc = "parsed" /\ ~HasValidMaxAge(header)) => parsed.nil

\* C7: with a record for example.com and none for sub.example.com, find for
\* sub.example.com returns that record exactly when its includeSubDomains is
\* set; a record at the request host itself is returned whatever its
\* includeSubDomains, and a record returned for a host that has none of its
\* own has includeSubDomains set.  The request phase decides accordingly.
C7_SubdomainsOnlyIfIncluded ==
    [][\A t \in 1..Len(transports) :
          LET S == State(t)
          IN  /\ (ExampleCom \in DOMAIN S /\ SubExampleCom \notin DOMAIN S) =>
                    /\ S[ExampleCom].includeSubDomains
                         => find(S, SubExampleCom, TRUE) = Ptr(S[ExampleCom])
                    /\ ~S[ExampleCom].includeSubDomains
                         => find(S, SubExampleCom, TRUE).nil
                    /\ (Started /\ cur' = t /\ req' = HTTP(SubExampleCom)
                          /\ Unexpired(S[ExampleCom], now))
                         => (Redirected' <=> S[ExampleCom].includeSubDomains)
              /\ \A h \in hosts :
                    /\ h \in DOMAIN S => find(S, h, TRUE) = Ptr(S[h])
                    /\ (h \notin DOMAIN S /\ ~find(S, h, TRUE).nil)
                         => find(S, h, TRUE).v.includeSubDomains]_vars

\* C7 witness: an http request to sub.example.com is with the wrapped
\* RoundTripper while example.com has an unexpired record without
\* includeSubDomains and sub.example.com has none.
C7_Witness ==
    /\ PassedOn
    /\ req = HTTP(SubExampleCom)
    /\ SubExampleCom \notin DOMAIN State(cur)
    /\ ExampleCom \in DOMAIN State(cur)
    /\ ~State(cur)[ExampleCom].includeSubDomains
    /\ Unexpired(State(cur)[ExampleCom], now)

\* C8: a request to a host with a record of its own learned at r with maxAge
\* m is upgraded when now <= r + m; when now > r + m it is not upgraded and
\* the record is removed.  Every upgrade rests on an unexpired record.
C8_ExpiryAtLookup ==
    [][(Started /\ req'.URL.Scheme = "http") =>
          LET S == State(cur')
              h == req'.URL.Host
          IN  /\ (h \in DOMAIN S /\ S[h].received # ZeroTime) =>
                    IF ~After(now, S[h].received, S[h].maxAge)
                    THEN Redirected' /\ StateAfter(cur') = S
                    ELSE PassedOn' /\ h \notin DOMAIN StateAfter(cur')
              /\ Redirected' => Covered(S, h, now)]_vars

\* C8 witness: an http request made at the last second of a learned record
\* (now = received + maxAge) has been answered with the redirect.
C8_Witness ==
    /\ Redirected
    /\ req.URL.Host \in DOMAIN State(cur)
    /\ State(cur)[req.URL.Host].received # ZeroTime
    /\ now > State(cur)[req.URL.Host].received
    /\ State(cur)[req.URL.Host].maxAge = Sec(now - State(cur)[req.URL.Host].received)

\* C9: when the request phase decides to upgrade, RoundTrip returns a response
\* with status 307 and the rewritten https URL as its Location, without calling
\* the wrapped RoundTripper and without changing the store; the call is over.
C9_UpgradeIsRedirect ==
    [][(Started /\ needsUpgrade(State(cur'), req', now).ok) =>
          /\ pc' = "done"
          /\ sent' = <<>>
          /\ heap' = heap
          /\ out'.err.nil
          /\ ~out'.resp.nil
          /\ out'.resp.v.StatusCode = 307
          /\ DOMAIN out'.resp.v.Header = {"Location"}
          /\ out'.resp.v.Header["Location"] =
                <<"https", "://">> \o needsUpgrade(State(cur'), req', now).u.v.Host
          /\ out'.resp.v.Request = req']_vars

\* C9 witness: the redirect returned for http://example.com:80.
C9_Witness ==
    /\ Redirected
    /\ req = HTTP(ExampleCom80)
    /\ out.resp.v.Header["Location"] =
          <<"https", "://", "example", ".", "com", ":", "4", "4", "3">>

\* C10: Transports built by New have map objects of their own: a step of a
\* RoundTrip call changes no map but the one of the Transport it was made on,
\* New changes no existing map, and the Transport it returns holds the
\* preloaded records, so that its first http request to a preloaded host is
\* upgraded whatever happened to the other Transports.
C10_StoresNotShared ==
    [][/\ \A t1, t2 \in 1..Len(transports) :
             t1 # t2 => transports[t1].state # transports[t2].state
       /\ \A t \in 1..Len(transports) :
             State(t)' # State(t) => (cur' = t /\ Len(transports') = Len(transports))
       /\ Len(transports') > Len(transports) =>
             /\ StateAfter(Len(transports')) = PreloadedState
             /\ \A h \in DOMAIN preload :
                   needsUpgrade(StateAfter(Len(transports')), HTTP(h), now).ok]_vars

\* C10 witness: the first Transport has forgotten the preloaded host, and an
\* http request to it on the second Transport has been answered with the
\* redirect.
C10_Witness ==
    /\ Len(transports) = 2
    /\ AccountsGoogleCom \notin DOMAIN State(1)
    /\ cur = 2
    /\ Redirected
    /\ req = HTTP(AccountsGoogleCom)

\* This step is the return of the wrapped RoundTripper with an error.
Failed == pc = "wrap" /\ pc' = "done" /\ ~wrapped'.err.nil

\* C12: when the wrapped RoundTripper returns an error, RoundTrip returns the
\* very pair it got, the wrapped RoundTripper was called once in that call, and
\* the store is as it was.
C12_ErrorPassedThrough ==
    [][Failed =>
          /\ out' = wrapped'
          /\ sent = <<req>>
          /\ sent' = sent
          /\ heap' = heap]_vars

\* C12 witness: RoundTrip has returned the timeout of the wrapped RoundTripper
\* together with the response that came with it, whose header asks for a
\* policy, and the store has no record for the host.
C12_Witness ==
    /\ pc = "done"
    /\ req = HTTPS(ExampleCom)
    /\ out.err = Ptr("timeout")
    /\ ~out.resp.nil
    /\ Get(out.resp.v.Header, STS) = HdrMaxAge3600Sub
    /\ sent = <<req>>
    /\ ExampleCom \notin DOMAIN State(cur)

\* The fields of a header whose name no earlier field of it has.
RECURSIVE FirstOccurrences(_, _)
FirstOccurrences(fields, seen) ==
    IF fields = <<>> THEN <<>>
    ELSE IF FieldName(Head(fields)) \in seen
         THEN FirstOccurrences(Tail(fields), seen)
         ELSE <<Head(fields)>> \o
              FirstOccurrences(Tail(fields), seen \cup {FieldName(Head(fields))})

\* The header made of the given fields.
RECURSIVE Join(_)
Join(fields) ==
    IF Len(fields) = 1 THEN fields[1]
    ELSE fields[1] \o <<";">> \o Join(Tail(fields))

\* The integer a valid max-age field carries.
MaxAgeValue(f) ==
    IF Atoi(FieldValue(f)).ok THEN Atoi(FieldValue(f)).n
    ELSE Atoi(Unquote(FieldValue(f)).v).n

\* The field is an includeSubDomains directive without a value.
ValidSubDomainsField(f) ==
    /\ FieldName(f) = IncludeSubDomainsName
    /\ \/ FieldValue(f) = <<>>
       \/ FieldValue(f) = <<DQ, DQ>>

Header1234Then0 ==
    MaxAgeEq \o <<"1", "2", "3", "4", ";", " ">> \o MaxAgeEq \o <<"0">>

\* C13: parse gives a header the result it gives the header's first
\* occurrences alone; when the first max-age field is valid the record has its
\* value, and includeSubDomains is set exactly when the first includeSubDomains
\* field is valid; "max-age=1234; max-age=0" is a policy of 1234 seconds.
C13_FirstOccurrenceWins ==
    pc = "parsed" =>
       LET fields == Split(header, ";")
           firsts == FirstOccurrences(fields, {})
       IN  /\ parsed = parse(Join(firsts), now)
           /\ \A i \in 1..Len(firsts) :
                 /\ ValidMaxAgeField(firsts[i]) =>
                       /\ ~parsed.nil
                       /\ parsed.v.maxAge = parse(firsts[i], now).v.maxAge
                 /\ (FieldName(firsts[i]) = IncludeSubDomainsName /\ ~parsed.nil) =>
                       (parsed.v.includeSubDomains <=> ValidSubDomainsField(firsts[i]))
           /\ header = Header1234Then0 => parsed = Ptr(Directive(now, Sec(1234), FALSE))

\* C13 witness: "max-age=1234; max-age=0" has been parsed into a record of
\* 1234 seconds.
C13_Witness ==
    /\ pc = "parsed"
    /\ header = Header1234Then0
    /\ ~parsed.nil
    /\ parsed.v.maxAge = Sec(1234)

\* The keys of the store S at which a lookup for host can match: the host
\* itself, and its ancestor domains whose record has includeSubDomains.
Matches(S, host) ==
    {k \in DOMAIN S :
        k = host \/ (k \in Ancestors(host) /\ S[k].includeSubDomains)}

\* The key at which the lookup matches: the longest of them.
MatchedKey(S, host) ==
    CHOOSE k \in Matches(S, host) : \A j \in Matches(S, host) : Len(j) <= Len(k)

\* C14: whenever the request phase finds the matched record expired, at the
\* request host or at an ancestor domain, the store has no entry under the
\* matched key afterwards and the request is handed on without upgrade.
C14_ExpiredMatchDeleted ==
    [][(Started /\ req'.URL.Scheme = "http") =>
          LET S == State(cur')
              h == req'.URL.Host
          IN  (Matches(S, h) # {} /\ ~Unexpired(S[MatchedKey(S, h)], now)) =>
                 /\ PassedOn'
                 /\ MatchedKey(S, h) \notin DOMAIN StateAfter(cur')]_vars

\* The Location header of the response RoundTrip returned.
Location == out.resp.v.Header["Location"]

\* C15: RoundTrip leaves the caller's request as it was.  The request as the
\* request phase leaves it is one of the requests the caller makes, and the
\* outcome is the one of that very request: a redirect is the answer to an
\* http request that needs the upgrade, whose URL differs from the Location,
\* and a request handed to the wrapped RoundTripper is the caller's request,
\* which needs no upgrade.  The rest of the call leaves the request alone, and
\* the response returned is the response to it.
C15_RequestUntouched ==
    [][/\ Started =>
             /\ req' \in Requests(hosts)
             /\ Redirected' =>
                   /\ req'.URL.Scheme = "http"
                   /\ needsUpgrade(State(cur'), req', now).ok
                   /\ out'.resp.v.Request = req'
                   /\ Location' # URLString(req'.URL)
             /\ pc' = "wrap" =>
                   /\ sent' = <<req'>>
                   /\ ~needsUpgrade(State(cur'), req', now).ok
       /\ (pc = "wrap" /\ pc' = "done") =>
             /\ req' = req
             /\ sent' = <<req>>
             /\ ~out'.resp.nil => out'.resp.v.Request = req]_vars

\* C15 witness: http://example.com:8080 has been answered with the redirect to
\* https://example.com:8080, and the request still has its http URL.
C15_Witness ==
    /\ Redirected
    /\ req = HTTP(ExampleCom8080)
    /\ out.resp.v.Request = HTTP(ExampleCom8080)
    /\ Location = <<"https", "://">> \o ExampleCom8080

\* The authority has a port: what follows its last ":", unless the authority
\* ends with the "]" of an IP literal.
HasPort(authority) == Contains(authority, ":") /\ ~HasSuffix(authority, "]")
LastColon(authority) ==
    CHOOSE i \in 1..Len(authority) :
        authority[i] = ":" /\ \A j \in (i + 1)..Len(authority) : authority[j] # ":"
\* The host name and the port of an authority.
HostName(authority) ==
    IF HasPort(authority) THEN SubSeq(authority, 1, LastColon(authority) - 1)
    ELSE authority
Port(authority) ==
    IF HasPort(authority) THEN From(authority, LastColon(authority) + 1) ELSE <<>>

\* The authority of the upgraded URL: the same host name, 443 for the port 80,
\* another port kept, no port added.
UpgradedAuthority(authority) ==
    IF ~HasPort(authority) THEN authority
    ELSE HostName(authority) \o <<":">> \o
         (IF Port(authority) = <<"8", "0">> THEN <<"4", "4", "3">> ELSE Port(authority))

\* C16: the URL of an upgrade has the scheme https, the host name of the
\* request, the port 443 for an explicit port 80, any other explicit port
\* unchanged, and no port when the request has none.
C16_UpgradedURL ==
    Redirected => Location = <<"https", "://">> \o UpgradedAuthority(req.URL.Host)

\* C17: the port is not part of the lookup key: while the store holds an
\* unexpired record learned for a host name, an http request to that name
\* with an explicit port is upgraded, to the port 443 for 80 and to the same
\* port otherwise.
C17_PortNotInKey ==
    [][(Started /\ req'.URL.Scheme = "http" /\ HasPort(req'.URL.Host)) =>
          LET S    == State(cur')
              name == HostName(req'.URL.Host)
          IN  (name \in DOMAIN S /\ S[name].received # ZeroTime
                 /\ Unexpired(S[name], now)) =>
                 /\ Redirected'
                 /\ Location' = <<"https", "://">> \o UpgradedAuthority(req'.URL.Host)]_vars

\* C18 as claimed: no record of any store has maxAge 0.
C18_NoZeroMaxAge ==
    \A t \in 1..Len(transports) : \A h \in DOMAIN State(t) : State(t)[h].maxAge # ZeroDuration

\* C18 amended: no record learned from a response has maxAge 0; the records
\* with maxAge 0 are the preloaded ones, as New built them; and when the
\* response phase has parsed a directive with maxAge 0, the store has no
\* record for the host of the response.
C18_NoLearnedZeroMaxAge ==
    /\ \A t \in 1..Len(transports) : \A h \in DOMAIN State(t) :
          /\ State(t)[h].received # ZeroTime => State(t)[h].maxAge # ZeroDuration
          /\ State(t)[h].maxAge = ZeroDuration =>
                h \in DOMAIN preload /\ State(t)[h] = Directive(ZeroTime, ZeroDuration, preload[h])
    /\ (pc = "done" /\ sent # <<>> /\ out.err.nil) =>
          LET hdr == Get(out.resp.v.Header, STS)
          IN  (hdr # <<>> /\ ~parse(hdr, now).nil /\ parse(hdr, now).v.maxAge = ZeroDuration)
                 => req.URL.Host \notin DOMAIN State(cur)

\* C18 witness: a max-age=0 response for example.com has been processed in a
\* store that holds a learned record for sub.example.com and the preloaded
\* records: example.com has no record.
C18_Witness ==
    /\ pc = "done"
    /\ sent # <<>>
    /\ out.err.nil
    /\ Get(out.resp.v.Header, STS) = HdrMaxAge0
    /\ req.URL.Host = ExampleCom
    /\ ExampleCom \notin DOMAIN State(cur)
    /\ SubExampleCom \in DOMAIN State(cur)
    /\ State(cur)[SubExampleCom].maxAge = Sec(3600)
    /\ AccountsGoogleCom \in DOMAIN State(cur)
    /\ State(cur)[AccountsGoogleCom].maxAge = ZeroDuration

\* The first occurrences of the fields of a header.
Firsts(hdr) == FirstOccurrences(Split(hdr, ";"), {})

\* The header is valid with a max-age above 0.
PositiveMaxAge(hdr) ==
    \E i \in 1..Len(Firsts(hdr)) :
        /\ ValidMaxAgeField(Firsts(hdr)[i])
        /\ ~MaxAgeValue(Firsts(hdr)[i]).neg
        /\ MaxAgeValue(Firsts(hdr)[i]) # Zero

\* The record such a header stands for when it is observed at time t.
RecordOf(hdr, t) ==
    LET i == CHOOSE j \in 1..Len(Firsts(hdr)) : ValidMaxAgeField(Firsts(hdr)[j])
    IN  Directive(t, Seconds(MaxAgeValue(Firsts(hdr)[i])),
                  \E j \in 1..Len(Firsts(hdr)) : ValidSubDomainsField(Firsts(hdr)[j]))

\* C19: observing a valid header with max-age > 0 for the host h makes the
\* entry of h the record of this header and this time, whatever the entry
\* was, and leaves every other entry and every other store as it was.
C19_PutReplaces ==
    [][(Responded /\ PositiveMaxAge(Get(out'.resp.v.Header, STS))) =>
          LET h == out'.resp.v.Request.URL.Host
          IN  /\ DOMAIN StateAfter(cur) = DOMAIN State(cur) \cup {h}
              /\ StateAfter(cur)[h] = RecordOf(Get(out'.resp.v.Header, STS), now)
              /\ \A k \in DOMAIN State(cur) \ {h} : StateAfter(cur)[k] = State(cur)[k]
              /\ \A i \in 1..Len(heap) : i # transports[cur].state => heap'[i] = heap[i]]_vars

\* The goroutines between a Lock of the mutex and the Unlock that follows it:
\* those at the code that reads or writes the map.
InStore == {c \in Callers : calls[c].pc \in {"locked", "addlocked"}}

\* C11: at most one goroutine is at the code that reads or writes the map, the
\* goroutine that is there is the one that locked the mutex, and no goroutine
\* whose call of the wrapped RoundTripper is in progress holds the mutex.
C11_MutualExclusion ==
    /\ Cardinality(InStore) <= 1
    /\ \A c \in InStore : mutex = c
    /\ \A c \in Callers : calls[c].pc = "wrap" => mutex # c

\* C11 witness: goroutine 2 is in add with the mutex while goroutine 1 waits at
\* the Lock of needsUpgrade.
C11_Witness ==
    /\ calls[2].pc = "addlocked"
    /\ mutex = 2
    /\ calls[1].pc = "lock"

\* The request phase of goroutine c is over: needsUpgrade has returned.
Decided(c) == calls[c].rt > 0 /\ calls[c].pc # "locked"
\* The response phase of goroutine c has updated the store: add has returned.
Updated(c) == calls[c].at > 0 /\ calls[c].pc = "done"

\* The locked sections from the k-th Lock on that are over, run one after the
\* other in the order of their Lock from the store s, decide as the request
\* phases decided and leave the store of the Transport.
RECURSIVE InLockOrder(_, _)
InLockOrder(k, s) ==
    IF k > Acquired THEN s = State(1)
    ELSE IF \E c \in Callers : calls[c].rt = k
    THEN LET c == CHOOSE x \in Callers : calls[x].rt = k
             n == needsUpgrade(s, calls[c].req, calls[c].tr)
         IN  IF Decided(c) THEN calls[c].ok = n.ok /\ InLockOrder(k + 1, n.state)
             ELSE InLockOrder(k + 1, s)
    ELSE LET c == CHOOSE x \in Callers : calls[x].at = k
         IN  IF Updated(c)
             THEN InLockOrder(k + 1, add(s, calls[c].req.URL.Host, calls[c].d.v))
             ELSE InLockOrder(k + 1, s)

\* No locked section on the host of goroutine u is over whose Lock is after
\* the Lock of the add of u and before the rank k.
NothingBetween(u, k) ==
    \A c \in Callers :
        calls[c].req.URL.Host = calls[u].req.URL.Host =>
            /\ ~(Updated(c) /\ calls[u].at < calls[c].at /\ calls[c].at < k)
            /\ ~(Decided(c) /\ calls[u].at < calls[c].rt /\ calls[c].rt < k)

\* C20: every request phase decides as needsUpgrade does on the store that
\* the locked sections before its Lock leave when run in the order of their
\* Lock; in particular, when the last of them on its host is the update of a
\* response phase, it upgrades exactly when that update stored a record that
\* has not expired.  The store is the one all the locked sections that are
\* over leave when run in that order, so that the entry of a host is the
\* outcome of the update whose Lock was last.
C20_LockOrder ==
    /\ InLockOrder(1, PreloadedState)
    /\ \A c, u \in Callers :
          (Decided(c) /\ Updated(u) /\ calls[u].at < calls[c].rt
           /\ calls[c].req.URL.Host = calls[u].req.URL.Host
           /\ NothingBetween(u, calls[c].rt)) =>
              calls[c].ok = (/\ calls[u].d.v.maxAge # ZeroDuration
                             /\ ~After(calls[c].tr, calls[u].d.v.received, calls[u].d.v.maxAge))
    /\ \A u \in Callers :
          (Updated(u) /\ NothingBetween(u, Acquired + 1)) =>
              LET h == calls[u].req.URL.Host
              IN  IF calls[u].d.v.maxAge = ZeroDuration THEN h \notin DOMAIN State(1)
                  ELSE h \in DOMAIN State(1) /\ State(1)[h] = calls[u].d.v

\* C20 witness: goroutine 1 called first and its add locked last, after the
\* add of goroutine 2 with another directive for the same host; the store has
\* the record of goroutine 1.
C20_Witness ==
    /\ Updated(1)
    /\ Updated(2)
    /\ calls[2].at < calls[1].at
    /\ calls[1].req.URL.Host = calls[2].req.URL.Host
    /\ calls[1].d # calls[2].d
    /\ calls[1].d.v.maxAge # ZeroDuration
    /\ calls[2].d.v.maxAge # ZeroDuration
    /\ State(1)[calls[1].req.URL.Host] = calls[1].d.v

\* C21: no record of any store has a negative maxAge, and parse yields no
\* directive with a negative maxAge for the header of the response returned.
C21_NoNegativeMaxAge ==
    /\ \A t \in 1..Len(transports) : \A h \in DOMAIN State(t) : ~Negative(State(t)[h].maxAge)
    /\ (pc = "done" /\ ~out.resp.nil) =>
          LET hdr == Get(out.resp.v.Header, STS)
          IN  (hdr # <<>> /\ ~parse(hdr, now).nil) => ~Negative(parse(hdr, now).v.maxAge)

\* C22: the response phase of a call whose request is a plain-http request
\* leaves every store as it was.
C22_HTTPResponseChangesNothing ==
    [][(Responded /\ req.URL.Scheme = "http") => heap' = heap]_vars

\* The quotient and the remainder of the int64 a, not negative, by c <= 10^4.
DivRem(a, c) ==
    LET x4 == a[4]
        x3 == (x4 % c) * Word + a[3]
        x2 == (x3 % c) * Word + a[2]
        x1 == (x2 % c) * Word + a[1]
    IN  [q |-> <<x1 \div c, x2 \div c, x3 \div c, x4 \div c>>, r |-> x1 % c]

\* The duration d is n seconds, no more and no less, for the int n >= 0.
IsSeconds(d, n) ==
    LET ms == DivRem(d, 1000)
        us == DivRem(ms.q, 1000)
        s  == DivRem(us.q, 1000)
    IN  /\ ~Negative(d)
        /\ ms.r = 0 /\ us.r = 0 /\ s.r = 0
        /\ s.q = Horner(ZeroDuration, n.digits)

\* The max-age value of a valid header.
MaxAgeOf(hdr) ==
    MaxAgeValue(Firsts(hdr)[CHOOSE j \in 1..Len(Firsts(hdr)) : ValidMaxAgeField(Firsts(hdr)[j])])

\* C23: after a response with a valid header of max-age N > 0 the host has a
\* record whose maxAge is N seconds, so that it is not expired at the time of
\* the response.
C23_LifetimeExact ==
    [][(Responded /\ PositiveMaxAge(Get(out'.resp.v.Header, STS))) =>
          LET h == out'.resp.v.Request.URL.Host
          IN  /\ h \in DOMAIN StateAfter(cur)
              /\ IsSeconds(StateAfter(cur)[h].maxAge, MaxAgeOf(Get(out'.resp.v.Header, STS)))
              /\ ~After(now, StateAfter(cur)[h].received, StateAfter(cur)[h].maxAge)]_vars

\* The number of lookups in the map that find(host, exact) makes on state.
RECURSIVE FindLookups(_, _, _)
FindLookups(state, host, exact) ==
    IF host \in DOMAIN state /\ (exact \/ state[host].includeSubDomains) THEN 1
    ELSE LET i == Index(host, ".")
         IN  IF i = 0 THEN 1
             ELSE 1 + FindLookups(state, From(host, i + 1), FALSE)

\* The number of labels of a host.
Labels(host) == 1 + Cardinality({i \in 1..Len(host) : host[i] = "."})

\* No call is in progress and the mutex is unlocked.
Quiet == mutex = 0 /\ \A c \in Callers : calls[c].pc \in {"idle", "done"}

\* A second passes while no call is in progress.
Pause == Quiet /\ Tick

\* What goroutine c does after its call of RoundTrip.
Step(c) ==
    \/ Lock(c)
    \/ ConcNeedsUpgrade(c)
    \/ \E hdr \in ConcHeaders : ConcWrapRespond(c, hdr)
    \/ ConcWrapFail(c)
    \/ ConcAdd(c)

NextFair ==
    \/ \E c \in Callers, r \in ConcRequests : ConcRoundTrip(c, r)
    \/ \E c \in Callers : Step(c)
    \/ Pause

\* Fair scheduling: a goroutine that can go on does so, which for a goroutine
\* at Lock means that it gets a mutex that stays unlocked, and for one that
\* called the wrapped RoundTripper that the call returns.
Fairness == \A c \in Callers : WF_vars(Step(c))

SpecFair == InitConc /\ [][NextFair]_vars /\ Fairness

\* C24: every RoundTrip call that was made returns and the mutex is unlocked
\* again: as each goroutine makes one call, from some time on no call is in
\* progress and the mutex is unlocked; and the walk of find for the host of a
\* request makes at most as many lookups as the host has labels.
C24_EveryCallReturns ==
    /\ <>[]Quiet
    /\ [](\A c \in Callers :
            calls[c].pc = "locked" =>
                FindLookups(State(1), calls[c].req.URL.Host, TRUE)
                    <= Labels(calls[c].req.URL.Host))

\* C24 witness: both goroutines have returned and the mutex is unlocked; one
\* went through the Lock of needsUpgrade, found the record of its host
\* expired and then through the Lock of add, the other through the Lock of add.
C24_Witness ==
    /\ Quiet
    /\ calls[1].pc = "done"
    /\ calls[2].pc = "done"
    /\ calls[1].at > 0
    /\ calls[2].rt > 0
    /\ calls[2].tr > 0
    /\ ~calls[2].ok
    /\ calls[2].at > 0

====
